---- MODULE Spec2Model ----
(***************************************************************************)
(* A model of the CHIP-8 interpreter core of src/src/emulator.rs (struct   *)
(* Emulator) together with the calls the driver of src/src/main.rs makes   *)
(* on it.  The machine is a record of the struct's fields; every method    *)
(* of the struct is an operator from machines to machines, and every       *)
(* action applies one of them to the current machine.                      *)
(***************************************************************************)
EXTENDS Integers, Sequences, FiniteSets, TLC

VARIABLES
    state,          \* RunState: "NoROM", "Running", "Paused"
    cpf,            \* cycles per frame
    shift_swap,     \* option read by 8xy6 / 8xyE
    complex_jump,   \* option read by Bnnn
    frame_count,
    mem,            \* [0..4095 -> 0..255]
    display,        \* display[x][y], x in 0..63, y in 0..31
    pc,
    reg_i,
    stack,          \* Vec<u16>: a sequence, the top is the last element
    delay_timer,
    sound_timer,
    regs,           \* [0..15 -> 0..255]
    key,            \* Option<u8>: <<>> is None, <<k>> is Some(k)
    panicked,       \* TRUE once a panic! has unwound out of the emulator
    in_step,        \* TRUE while step() is on the call stack
    n,              \* the loop variable of step()'s for loop: the cycles
                    \* the current (or the last) call of step() has run
    at_call,        \* the two timers as they were when step() was last called
    hist            \* the cycles (or the resets) run since the last other
                    \* call, newest first; a cycle with the word it fetched
                    \* and the machine as it was before, a reset with a
                    \* digest of the machine as it was before

vars == <<state, cpf, shift_swap, complex_jump, frame_count, mem, display, pc,
          reg_i, stack, delay_timer, sound_timer, regs, key, panicked,
          in_step, n, at_call, hist>>

-----------------------------------------------------------------------------
(* Program constants *)

DISPLAY_W == 64
DISPLAY_H == 32
MEM_OFFSET == 512
MEM_SIZE == 4096
FONT_BASE == 80
DEFAULT_CPF == 10

FONTSET ==
    << 240, 144, 144, 144, 240,
        32,  96,  32,  32, 112,
       240,  16, 240, 128, 240,
       240,  16, 240,  16, 240,
       144, 144, 240,  16,  16,
       240, 128, 240,  16, 240,
       240, 128, 240, 144, 240,
       240,  16,  32,  64,  64,
       240, 144, 240, 144, 240,
       240, 144, 240,  16, 240,
       240, 144, 240, 144, 144,
       224, 144, 224, 144, 224,
       240, 128, 128, 128, 240,
       224, 144, 144, 144, 224,
       240, 128, 240, 128, 240,
       240, 128, 240, 128, 128 >>

-----------------------------------------------------------------------------
(* Bounds of the exploration *)

\* step() is not called once frame_count has reached MaxFrames
MaxFrames == 3

-----------------------------------------------------------------------------
(* u8 / u16 arithmetic *)

RECURSIVE BitAnd(_, _)
BitAnd(a, b) ==
    IF a = 0 \/ b = 0 THEN 0
    ELSE 2 * BitAnd(a \div 2, b \div 2) + (a % 2) * (b % 2)

RECURSIVE BitOr(_, _)
BitOr(a, b) ==
    IF a = 0 THEN b
    ELSE IF b = 0 THEN a
    ELSE 2 * BitOr(a \div 2, b \div 2) + (IF a % 2 = 1 \/ b % 2 = 1 THEN 1 ELSE 0)

RECURSIVE BitXor(_, _)
BitXor(a, b) ==
    IF a = 0 THEN b
    ELSE IF b = 0 THEN a
    ELSE 2 * BitXor(a \div 2, b \div 2) + (IF a % 2 # b % 2 THEN 1 ELSE 0)

\* u8::overflowing_add: the wrapped sum and whether it overflowed
overflowing_add(a, b) == [val |-> (a + b) % 256, overflow |-> a + b > 255]

\* u8::overflowing_sub: the wrapped difference and whether it underflowed
overflowing_sub(a, b) == [val |-> (a - b + 256) % 256, overflow |-> a < b]

\* u8::wrapping_add
wrapping_add(a, b) == (a + b) % 256

\* u8::checked_sub: <<>> is None, <<d>> is Some(d)
checked_sub(a, b) == IF a < b THEN <<>> ELSE <<a - b>>

Panic(m) == [m EXCEPT !.panicked = TRUE]

-----------------------------------------------------------------------------
(* Emulator::new and the lifecycle methods *)

ZeroMem == [a \in 0..(MEM_SIZE - 1) |-> 0]
ZeroRegs == [r \in 0..15 |-> 0]
ZeroDisplay == [x \in 0..(DISPLAY_W - 1) |-> [y \in 0..(DISPLAY_H - 1) |-> 0]]

new ==
    [ cpf |-> DEFAULT_CPF, shift_swap |-> FALSE, complex_jump |-> FALSE,
      state |-> "NoROM", frame_count |-> 0, mem |-> ZeroMem, regs |-> ZeroRegs,
      display |-> ZeroDisplay, pc |-> MEM_OFFSET, reg_i |-> 0, stack |-> <<>>,
      delay_timer |-> 0, sound_timer |-> 0, key |-> <<>>, panicked |-> FALSE ]

\* reset that leaves the key latch alone
reset_keeps_key(m) ==
    [m EXCEPT !.mem = ZeroMem, !.state = "NoROM", !.frame_count = 0,
              !.regs = ZeroRegs, !.display = ZeroDisplay, !.pc = MEM_OFFSET,
              !.reg_i = 0, !.stack = <<>>, !.delay_timer = 0,
              !.sound_timer = 0]

reset(m) ==
    [m EXCEPT !.mem = ZeroMem, !.state = "NoROM", !.frame_count = 0,
              !.regs = ZeroRegs, !.display = ZeroDisplay, !.pc = MEM_OFFSET,
              !.reg_i = 0, !.stack = <<>>, !.delay_timer = 0,
              !.sound_timer = 0, !.key = <<>>]

\* pause that blanks the framebuffer
pause_blanks(m) == [m EXCEPT !.state = "Paused", !.display = ZeroDisplay]

pause(m) == [m EXCEPT !.state = "Paused"]

resume(m) == [m EXCEPT !.state = "Running"]

\* memory with bytes[1..count] copied to memory[base .. base + count - 1]
write_slice(memory, base, bytes, count) ==
    [a \in base..(base + count - 1) |-> bytes[a - base + 1]] @@ memory

\* load_rom that resets the machine before it copies the file
load_rom_after_reset(m, rom) ==
    LET count == IF Len(rom) < MEM_SIZE - MEM_OFFSET THEN Len(rom)
                 ELSE MEM_SIZE - MEM_OFFSET
    IN resume([reset(m) EXCEPT
                  !.mem = write_slice(ZeroMem, MEM_OFFSET, rom, count)])

\* File::read into mem[MEM_OFFSET..]: at most the slice's length is copied
load_rom(m, rom) ==
    LET count == IF Len(rom) < MEM_SIZE - MEM_OFFSET THEN Len(rom)
                 ELSE MEM_SIZE - MEM_OFFSET
    IN resume([m EXCEPT !.mem = write_slice(m.mem, MEM_OFFSET, rom, count)])

\* mem[0x050..0x0A0].clone_from_slice(&FONTSET)
load_font(m) ==
    [m EXCEPT !.mem = write_slice(m.mem, FONT_BASE, FONTSET, Len(FONTSET))]

-----------------------------------------------------------------------------
(* The opcode handlers.  Each takes the machine and the operands the       *)
(* dispatcher passes and gives the machine after the handler.              *)

\* op_clear_screen that stops one row short
op_clear_screen_short(m) ==
    [m EXCEPT !.display =
        [x \in 0..(DISPLAY_W - 1) |->
            [y \in 0..(DISPLAY_H - 1) |->
                IF y < DISPLAY_H - 1 THEN 0 ELSE m.display[x][y]]]]

op_clear_screen(m) == [m EXCEPT !.display = ZeroDisplay]

op_jump(m, address) == [m EXCEPT !.pc = address]

op_subroutine(m, address) ==
    [m EXCEPT !.stack = Append(m.stack, m.pc), !.pc = address]

\* op_ret that takes the oldest return address
op_ret_oldest(m) ==
    IF Len(m.stack) = 0 THEN Panic(m)
    ELSE [m EXCEPT !.pc = m.stack[1], !.stack = Tail(m.stack)]

\* stack.pop().unwrap(): panics on an empty stack
op_ret(m) ==
    IF Len(m.stack) = 0 THEN Panic(m)
    ELSE [m EXCEPT !.pc = m.stack[Len(m.stack)],
                   !.stack = SubSeq(m.stack, 1, Len(m.stack) - 1)]

op_eq_skip(m, reg, val) ==
    IF m.regs[reg] = val THEN [m EXCEPT !.pc = m.pc + 2] ELSE m

op_neq_skip(m, reg, val) ==
    IF m.regs[reg] # val THEN [m EXCEPT !.pc = m.pc + 2] ELSE m

op_req_skip(m, reg_x, reg_y) ==
    IF m.regs[reg_x] = m.regs[reg_y] THEN [m EXCEPT !.pc = m.pc + 2] ELSE m

op_rneq_skip(m, reg_x, reg_y) ==
    IF m.regs[reg_x] # m.regs[reg_y] THEN [m EXCEPT !.pc = m.pc + 2] ELSE m

op_set_reg(m, reg, val) == [m EXCEPT !.regs[reg] = val]

op_add_reg(m, reg, val) == [m EXCEPT !.regs[reg] = wrapping_add(m.regs[reg], val)]

op_set(m, reg_x, reg_y) == [m EXCEPT !.regs[reg_x] = m.regs[reg_y]]

op_or(m, reg_x, reg_y) ==
    [m EXCEPT !.regs[reg_x] = BitOr(m.regs[reg_x], m.regs[reg_y])]

op_and(m, reg_x, reg_y) ==
    [m EXCEPT !.regs[reg_x] = BitAnd(m.regs[reg_x], m.regs[reg_y])]

op_xor(m, reg_x, reg_y) ==
    [m EXCEPT !.regs[reg_x] = BitXor(m.regs[reg_x], m.regs[reg_y])]

\* op_add with the two writes swapped: the flag first, the sum second
op_add_flag_first(m, reg_x, reg_y) ==
    LET r == overflowing_add(m.regs[reg_x], m.regs[reg_y])
        m1 == [m EXCEPT !.regs[15] = IF r.overflow THEN 1 ELSE 0]
    IN [m1 EXCEPT !.regs[reg_x] = r.val]

\* regs[reg_x] is written first, regs[15] second
op_add(m, reg_x, reg_y) ==
    LET r == overflowing_add(m.regs[reg_x], m.regs[reg_y])
        m1 == [m EXCEPT !.regs[reg_x] = r.val]
    IN [m1 EXCEPT !.regs[15] = IF r.overflow THEN 1 ELSE 0]

\* op_sub with the polarity of add: the flag is 1 on underflow
op_sub_flag_as_add(m, reg_x, reg_y) ==
    LET r == overflowing_sub(m.regs[reg_x], m.regs[reg_y])
        m1 == [m EXCEPT !.regs[reg_x] = r.val]
    IN [m1 EXCEPT !.regs[15] = IF r.overflow THEN 1 ELSE 0]

op_sub(m, reg_x, reg_y) ==
    LET r == overflowing_sub(m.regs[reg_x], m.regs[reg_y])
        m1 == [m EXCEPT !.regs[reg_x] = r.val]
    IN [m1 EXCEPT !.regs[15] = IF r.overflow THEN 0 ELSE 1]

\* op_rsub whose flag is 1 when there is no borrow
op_rsub_flag_no_borrow(m, reg_x, reg_y) ==
    LET sub == checked_sub(m.regs[reg_y], m.regs[reg_x])
    IN IF sub # <<>>
       THEN [[m EXCEPT !.regs[reg_x] = sub[1]] EXCEPT !.regs[15] = 1]
       ELSE [m EXCEPT !.regs[15] = 0]

op_rsub(m, reg_x, reg_y) ==
    LET sub == checked_sub(m.regs[reg_y], m.regs[reg_x])
    IN IF sub # <<>>
       THEN LET m1 == [m EXCEPT !.regs[reg_x] = sub[1]]
            IN [m1 EXCEPT !.regs[15] = 0]
       ELSE [m EXCEPT !.regs[15] = 1]

\* op_shift_r that never copies Vy
op_shift_r_no_swap(m, reg_x, reg_y, swap) ==
    LET m2 == [m EXCEPT !.regs[15] = BitAnd(m.regs[reg_x], 1)]
    IN [m2 EXCEPT !.regs[reg_x] = m2.regs[reg_x] \div 2]

op_shift_r(m, reg_x, reg_y, swap) ==
    LET m1 == IF swap THEN [m EXCEPT !.regs[reg_x] = m.regs[reg_y]] ELSE m
        m2 == [m1 EXCEPT !.regs[15] = BitAnd(m1.regs[reg_x], 1)]
    IN [m2 EXCEPT !.regs[reg_x] = m2.regs[reg_x] \div 2]

op_shift_l(m, reg_x, reg_y, swap) ==
    LET m1 == IF swap THEN [m EXCEPT !.regs[reg_x] = m.regs[reg_y]] ELSE m
        m2 == [m1 EXCEPT !.regs[15] = BitAnd(m1.regs[reg_x], 128) \div 128]
    IN [m2 EXCEPT !.regs[reg_x] = (m2.regs[reg_x] * 2) % 256]

op_set_ireg(m, val) == [m EXCEPT !.reg_i = val]

op_jump_off(m, address) == [m EXCEPT !.pc = address + m.regs[0]]

op_jump_coff(m, address, reg) == [m EXCEPT !.pc = address + m.regs[reg]]

\* rng is the byte rand::random::<u8>() returned
op_rng(m, reg, val, rng) == [m EXCEPT !.regs[reg] = BitAnd(rng, val)]

\* display_cols that turns the pixel on instead of toggling it
RECURSIVE display_cols_or(_, _, _, _, _)
display_cols_or(m, sprite, pos_x, row, x) ==
    IF x >= 8 \/ pos_x + x >= DISPLAY_W THEN m
    ELSE LET pixel == m.display[pos_x + x][row]
             m1 == IF BitAnd(sprite, 128 \div (2 ^ x)) # 0
                   THEN LET mf == IF pixel = 1 THEN [m EXCEPT !.regs[15] = 1]
                                  ELSE m
                        IN [mf EXCEPT !.display[pos_x + x][row] = BitOr(pixel, 1)]
                   ELSE m
         IN display_cols_or(m1, sprite, pos_x, row, x + 1)

\* display_cols that wraps to column 0 instead of stopping at the edge
RECURSIVE display_cols_wrap(_, _, _, _, _)
display_cols_wrap(m, sprite, pos_x, row, x) ==
    IF x >= 8 THEN m
    ELSE LET col == (pos_x + x) % DISPLAY_W
             pixel == m.display[col][row]
             m1 == IF BitAnd(sprite, 128 \div (2 ^ x)) # 0
                   THEN LET mf == IF pixel = 1 THEN [m EXCEPT !.regs[15] = 1]
                                  ELSE m
                        IN [mf EXCEPT !.display[col][row] = BitXor(pixel, 1)]
                   ELSE m
         IN display_cols_wrap(m1, sprite, pos_x, row, x + 1)

\* display_cols whose flag follows the last pixel it toggled
RECURSIVE display_cols_last_flag(_, _, _, _, _)
display_cols_last_flag(m, sprite, pos_x, row, x) ==
    IF x >= 8 \/ pos_x + x >= DISPLAY_W THEN m
    ELSE LET pixel == m.display[pos_x + x][row]
             m1 == IF BitAnd(sprite, 128 \div (2 ^ x)) # 0
                   THEN [m EXCEPT !.regs[15] = pixel,
                                  !.display[pos_x + x][row] = BitXor(pixel, 1)]
                   ELSE m
         IN display_cols_last_flag(m1, sprite, pos_x, row, x + 1)

\* the inner loop of op_display: for x in 0..8, one sprite row
RECURSIVE display_cols(_, _, _, _, _)
display_cols(m, sprite, pos_x, row, x) ==
    IF x >= 8 \/ pos_x + x >= DISPLAY_W THEN m
    ELSE LET pixel == m.display[pos_x + x][row]
             m1 == IF BitAnd(sprite, 128 \div (2 ^ x)) # 0
                   THEN LET mf == IF pixel = 1 THEN [m EXCEPT !.regs[15] = 1]
                                  ELSE m
                        IN [mf EXCEPT !.display[pos_x + x][row] = BitXor(pixel, 1)]
                   ELSE m
         IN display_cols(m1, sprite, pos_x, row, x + 1)

\* the outer loop of op_display: for y in 0..val; mem is indexed unchecked
\* by the code, so an index past the array panics
RECURSIVE display_rows(_, _, _, _, _)
display_rows(m, pos_x, pos_y, val, y) ==
    IF y >= val \/ pos_y + y >= DISPLAY_H THEN m
    ELSE IF m.reg_i + y >= MEM_SIZE THEN Panic(m)
    ELSE display_rows(display_cols(m, m.mem[m.reg_i + y], pos_x, pos_y + y, 0),
                      pos_x, pos_y, val, y + 1)

op_display(m, reg_x, reg_y, val) ==
    LET pos_x == m.regs[reg_x] % DISPLAY_W
        pos_y == m.regs[reg_y] % DISPLAY_H
    IN display_rows([m EXCEPT !.regs[15] = 0], pos_x, pos_y, val, 0)

op_key_skip(m, reg) ==
    IF m.key # <<>> /\ m.key[1] = m.regs[reg] THEN [m EXCEPT !.pc = m.pc + 2]
    ELSE m

op_nkey_skip(m, reg) ==
    IF m.key # <<>> /\ m.key[1] # m.regs[reg] THEN [m EXCEPT !.pc = m.pc + 2]
    ELSE m

op_check_timer(m, reg) == [m EXCEPT !.regs[reg] = m.delay_timer]

op_set_dtimer(m, reg) == [m EXCEPT !.delay_timer = m.regs[reg]]

op_set_stimer(m, reg) == [m EXCEPT !.sound_timer = m.regs[reg]]

\* op_add_ireg that keeps the index register to 12 bits
op_add_ireg_masked(m, reg, overflow_checks) ==
    LET sum == m.reg_i + m.regs[reg]
    IN IF sum > 65535 /\ overflow_checks THEN Panic(m)
       ELSE LET m1 == [m EXCEPT !.reg_i = sum % 4096]
            IN IF sum > 4096 THEN [m1 EXCEPT !.regs[15] = 1] ELSE m1

\* reg_i += Vx is a u16 addition: when it overflows, a build with overflow
\* checks panics and a build without them wraps
op_add_ireg(m, reg, overflow_checks) ==
    LET sum == m.reg_i + m.regs[reg]
    IN IF sum > 65535 /\ overflow_checks THEN Panic(m)
       ELSE LET m1 == [m EXCEPT !.reg_i = sum % 65536]
            IN IF m1.reg_i > 4096 THEN [m1 EXCEPT !.regs[15] = 1] ELSE m1

\* op_get_key that empties the latch once it has read it
op_get_key_consumes(m, reg) ==
    IF m.key # <<>> THEN [m EXCEPT !.regs[reg] = m.key[1], !.key = <<>>]
    ELSE [m EXCEPT !.pc = m.pc - 2]

\* op_get_key that does not rewind pc while no key is held
op_get_key_no_rewind(m, reg) ==
    IF m.key # <<>> THEN [m EXCEPT !.regs[reg] = m.key[1]]
    ELSE m

op_get_key(m, reg) ==
    IF m.key # <<>> THEN [m EXCEPT !.regs[reg] = m.key[1]]
    ELSE [m EXCEPT !.pc = m.pc - 2]

op_font_char(m, reg) ==
    [m EXCEPT !.reg_i = MEM_OFFSET + BitAnd(m.regs[reg], 15) * 5]

\* three unchecked writes, in order; the first index past the array panics
op_decimals(m, reg) ==
    LET v == m.regs[reg]
    IN IF m.reg_i >= MEM_SIZE THEN Panic(m)
       ELSE LET m1 == [m EXCEPT !.mem[m.reg_i] = v \div 100]
            IN IF m.reg_i + 1 >= MEM_SIZE THEN Panic(m1)
               ELSE LET m2 == [m1 EXCEPT !.mem[m.reg_i + 1] = (v % 100) \div 10]
                    IN IF m.reg_i + 2 >= MEM_SIZE THEN Panic(m2)
                       ELSE [m2 EXCEPT !.mem[m.reg_i + 2] = v % 10]

\* for n in 0..=reg
RECURSIVE store_loop(_, _, _)
store_loop(m, reg, k) ==
    IF k > reg THEN m
    ELSE IF m.reg_i + k >= MEM_SIZE THEN Panic(m)
    ELSE store_loop([m EXCEPT !.mem[m.reg_i + k] = m.regs[k]], reg, k + 1)

op_store(m, reg) == store_loop(m, reg, 0)

RECURSIVE load_loop(_, _, _)
load_loop(m, reg, k) ==
    IF k > reg THEN m
    ELSE IF m.reg_i + k >= MEM_SIZE THEN Panic(m)
    ELSE load_loop([m EXCEPT !.regs[k] = m.mem[m.reg_i + k]], reg, k + 1)

\* op_load that stops one register short
op_load_exclusive(m, reg) == load_loop(m, reg - 1, 0)

op_load(m, reg) == load_loop(m, reg, 0)

-----------------------------------------------------------------------------
(* Fetch, decode and dispatch *)

\* curr_inst that combines the two bytes little-endian
curr_inst_le(m) == BitOr(m.mem[m.pc + 1] * 256, m.mem[m.pc])

\* mem is indexed unchecked at pc and pc + 1
curr_inst(m) == BitOr(m.mem[m.pc] * 256, m.mem[m.pc + 1])

field_x(inst) == BitAnd(inst, 3840) \div 256
field_y(inst) == BitAnd(inst, 240) \div 16
field_n(inst) == BitAnd(inst, 15)
field_nn(inst) == BitAnd(inst, 255)
field_nnn(inst) == BitAnd(inst, 4095)
family(inst) == BitAnd(inst, 61440) \div 4096

\* the match of internal_step, entered with pc already advanced
dispatch(m, inst, rng, overflow_checks) ==
    LET x == field_x(inst)
        y == field_y(inst)
        nib == field_n(inst)
        nn == field_nn(inst)
        nnn == field_nnn(inst)
        f == family(inst)
    IN CASE f = 0 -> (IF inst = 224 THEN op_clear_screen(m)
                      ELSE IF inst = 238 THEN op_ret(m)
                      ELSE m)
         [] f = 1 -> op_jump(m, nnn)
         [] f = 2 -> op_subroutine(m, nnn)
         [] f = 3 -> op_eq_skip(m, x, nn)
         [] f = 4 -> op_neq_skip(m, x, nn)
         [] f = 5 -> op_req_skip(m, x, y)
         [] f = 6 -> op_set_reg(m, x, nn)
         [] f = 7 -> op_add_reg(m, x, nn)
         [] f = 8 -> (CASE nib = 0 -> op_set(m, x, y)
                        [] nib = 1 -> op_or(m, x, y)
                        [] nib = 2 -> op_and(m, x, y)
                        [] nib = 3 -> op_xor(m, x, y)
                        [] nib = 4 -> op_add(m, x, y)
                        [] nib = 5 -> op_sub(m, x, y)
                        [] nib = 6 -> op_shift_r(m, x, y, m.shift_swap)
                        [] nib = 7 -> op_rsub(m, x, y)
                        [] nib = 14 -> op_shift_l(m, x, y, m.shift_swap)
                        [] OTHER -> m)
         [] f = 9 -> op_rneq_skip(m, x, y)
         [] f = 10 -> op_set_ireg(m, nnn)
         [] f = 11 -> (IF ~m.complex_jump THEN op_jump_off(m, nnn)
                       ELSE op_jump_coff(m, nnn, x))
         [] f = 12 -> op_rng(m, x, nn, rng)
         [] f = 13 -> op_display(m, x, y, nib)
         [] f = 14 -> (CASE nn = 158 -> op_key_skip(m, x)
                         [] nn = 161 -> op_nkey_skip(m, x)
                         [] OTHER -> m)
         [] f = 15 -> (CASE nn = 7 -> op_check_timer(m, x)
                         [] nn = 21 -> op_set_dtimer(m, x)
                         [] nn = 24 -> op_set_stimer(m, x)
                         [] nn = 30 -> op_add_ireg(m, x, overflow_checks)
                         [] nn = 10 -> op_get_key(m, x)
                         [] nn = 41 -> op_font_char(m, x)
                         [] nn = 51 -> op_decimals(m, x)
                         [] nn = 85 -> op_store(m, x)
                         [] nn = 101 -> op_load(m, x)
                         [] OTHER -> m)

\* one fetch-decode-execute cycle; the fetch panics when pc or pc + 1 is
\* past the end of mem
internal_step(m, rng, overflow_checks) ==
    IF m.pc + 1 >= MEM_SIZE THEN Panic(m)
    ELSE dispatch([m EXCEPT !.pc = m.pc + 2], curr_inst(m), rng, overflow_checks)

\* the head of step(): both timers count down, floored at 0
step_timers(m) ==
    LET m1 == IF m.delay_timer > 0
              THEN [m EXCEPT !.delay_timer = m.delay_timer - 1] ELSE m
    IN IF m1.sound_timer > 0
       THEN [m1 EXCEPT !.sound_timer = m1.sound_timer - 1] ELSE m1

\* the for loop of step() runs while n < cpf
step_continues(m, k) == k < m.cpf

\* the tail of step()
step_finish(m) == [m EXCEPT !.frame_count = m.frame_count + 1]

\* main.rs: scancode to key; <<>> is None
map_key(scancode) ==
    CASE scancode = 2 -> <<1>>
      [] scancode = 3 -> <<2>>
      [] scancode = 4 -> <<3>>
      [] scancode = 5 -> <<12>>
      [] scancode = 16 -> <<4>>
      [] scancode = 17 -> <<5>>
      [] scancode = 18 -> <<6>>
      [] scancode = 19 -> <<13>>
      [] scancode = 30 -> <<7>>
      [] scancode = 31 -> <<8>>
      [] scancode = 32 -> <<9>>
      [] scancode = 33 -> <<14>>
      [] scancode = 44 -> <<10>>
      [] scancode = 45 -> <<0>>
      [] scancode = 46 -> <<11>>
      [] scancode = 63 -> <<15>>
      [] OTHER -> <<>>

\* main.rs: the KeyboardInput arm of the event loop
\* keyboard_input whose release only clears the latch of the released key
keyboard_input_own_release(m, released, scancode) ==
    IF released
    THEN IF m.key = map_key(scancode) THEN [m EXCEPT !.key = <<>>] ELSE m
    ELSE IF map_key(scancode) # <<>> THEN [m EXCEPT !.key = map_key(scancode)]
    ELSE m

keyboard_input(m, released, scancode) ==
    IF released THEN [m EXCEPT !.key = <<>>]
    ELSE IF map_key(scancode) # <<>> THEN [m EXCEPT !.key = map_key(scancode)]
    ELSE m

-----------------------------------------------------------------------------
(* Inputs: the ROM files, the configurations, the scancodes and the bytes  *)
(* the random generator returns                                            *)

\* 8xy4 on random operands, with x = y, x = 15 and y = 15
RomAdd == << 192, 255,  193, 255,  128, 20,  143, 244,  111, 7,
             143, 20,  111, 255,  129, 244,  129, 20 >>

\* 8xy5 on random operands, with x = y, x = 15 and y = 15
RomSub == << 192, 255,  193, 255,  128, 21,  143, 245,  111, 7,
             143, 21,  111, 128,  129, 245,  129, 21 >>

\* I := 0x200; a background sprite at (vx, vy); the same draw twice two
\* columns to the right; the same draw twice through VF; clear
RomDraw(vx, vy) ==
    << 162, 0,  96, vx,  97, vy,  208, 21,  112, 2,  208, 31,  208, 31,
       111, 10,  223, 21,  223, 21,  0, 224 >>

DrawPositions == { <<5, 3>>, <<60, 29>>, <<127, 63>> }

\* a lone return
RomRet == << 0, 238 >>

\* call 0x206, which returns at once; then a return on the empty stack
RomCall == << 34, 6,  97, 1,  0, 238,  0, 238 >>

\* delay := 3; sound := 1; wait for a key into V1, then into VF;
\* V2 := delay; loop to the first wait
RomKeyTimer == << 96, 3,  240, 21,  97, 1,  241, 24,  241, 10,  255, 10,
                  242, 7,  18, 8 >>

\* V0 := 5; V1 := 3; V0 := V0 + V1
RomScenario == << 96, 5,  97, 3,  128, 20 >>

\* words outside the opcode table: V0 := 5, 0123, 8018, 5001, (V0 := 9),
\* 9011, (V0 := 9), E0FF, F0FF
RomUndefined == << 96, 5,  1, 35,  128, 24,  80, 1,  96, 9,  144, 17,  96, 9,
                   224, 255,  240, 255 >>

\* a store that runs past the end of memory: I := 0xFFF, V0 := 7, F155
RomEdge == << 175, 255,  96, 7,  241, 85 >>

\* a file one byte longer than the program region: V0 := 1, then 0101 ...
RomTooLarge ==
    [i \in 1..(MEM_SIZE - MEM_OFFSET + 1) |-> IF i = 1 THEN 96 ELSE 1]

\* V0 := 3, F029, V1 := 1, E1A1, V2 := 9, V3 := 5, 8237, 8327, 8F37,
\* VF := 9, 8F37, 83F7, D125, VF := 1, D120
RomMisc == << 96, 3,  240, 41,  97, 1,  225, 161,  98, 9,  99, 5,  130, 55,
              131, 39,  143, 55,  111, 9,  143, 55,  131, 247,  209, 37,
              111, 1,  209, 32 >>

\* V0 := 0x85, V1 := 0x83, 801E, 8016, 8F16, 8F1E, V0 := 5, 8016, VF := 3,
\* 8F16, VF := 0x81, 8FFE
RomShift == << 96, 133,  97, 131,  128, 30,  128, 22,  143, 22,  143, 30,
               96, 5,  128, 22,  111, 3,  143, 22,  111, 129,  143, 254 >>

\* I := 0x300, V0 := 0x11, V1 := 0x22, F155, F165, V1 := 0x99, F165;
\* I := 0xFFF, VF := 7, V0 := 1, F01E, F01E, FF1E
RomIndex == << 163, 0,  96, 17,  97, 34,  241, 85,  241, 101,  97, 153,
               241, 101,  175, 255,  111, 7,  96, 1,  240, 30,  240, 30,
               255, 30 >>

\* 0x200: call 0x204; 0x202: jump 0x202; 0x204: call 0x208; 0x206: return;
\* 0x208: return
RomNested == << 34, 4,  18, 2,  34, 8,  0, 238,  0, 238 >>

Roms == { RomAdd, RomSub, RomRet, RomCall, RomKeyTimer, RomScenario,
          RomUndefined, RomEdge, RomTooLarge, RomMisc, RomShift, RomIndex,
          RomNested }
        \cup { RomDraw(p[1], p[2]) : p \in DrawPositions }

\* the ROMs that are also loaded over a machine that has run
Reloads == { RomScenario }

RngBytes == { 1, 128, 255 }

\* 0x02 is key 1, 0x3F is key F, 0x01 is not mapped
Scancodes == { 2, 63, 1 }

\* <<released, scancode>>: a release of either key, and a press of every
\* scancode
KeyEvents == { <<TRUE, 2>>, <<TRUE, 63>> } \cup { <<FALSE, sc>> : sc \in Scancodes }

\* values written to the public fields cpf, shift_swap, complex_jump
Configs == { [cpf |-> 10, shift_swap |-> FALSE, complex_jump |-> FALSE],
             [cpf |-> 2, shift_swap |-> TRUE, complex_jump |-> TRUE] }

-----------------------------------------------------------------------------
(* The state machine *)

Self ==
    [ cpf |-> cpf, shift_swap |-> shift_swap, complex_jump |-> complex_jump,
      state |-> state, frame_count |-> frame_count, mem |-> mem, regs |-> regs,
      display |-> display, pc |-> pc, reg_i |-> reg_i, stack |-> stack,
      delay_timer |-> delay_timer, sound_timer |-> sound_timer, key |-> key,
      panicked |-> panicked ]

Install(m) ==
    /\ cpf' = m.cpf
    /\ shift_swap' = m.shift_swap
    /\ complex_jump' = m.complex_jump
    /\ state' = m.state
    /\ frame_count' = m.frame_count
    /\ mem' = m.mem
    /\ regs' = m.regs
    /\ display' = m.display
    /\ pc' = m.pc
    /\ reg_i' = m.reg_i
    /\ stack' = m.stack
    /\ delay_timer' = m.delay_timer
    /\ sound_timer' = m.sound_timer
    /\ key' = m.key
    /\ panicked' = m.panicked

\* how many cycles hist remembers
HistLen == 3

\* hist after one more cycle that fetched inst on machine m
Remember(inst, m) ==
    LET cycles == IF hist # <<>> /\ hist[1].op = "cycle" THEN hist ELSE <<>>
    IN SubSeq(<<[op |-> "cycle", inst |-> inst, m |-> m]>> \o cycles, 1,
              IF Len(cycles) < HistLen THEN Len(cycles) + 1 ELSE HistLen)

\* hist after load_rom(rom) on machine m
RememberLoad(m, rom) ==
    <<[op |-> "load", inst |-> 0, m |-> [pre |-> m, rom |-> rom]]>>

\* hist after a keyboard event on a machine whose key latch was k
RememberKey(k, released, scancode) ==
    <<[op |-> "key", inst |-> 0,
       m |-> [key |-> k, released |-> released, scancode |-> scancode]]>>

\* what hist keeps of the machine a reset was applied to
Digest(m) ==
    [ ran |-> m.frame_count > 0, held |-> m.key # <<>>,
      lit |-> m.display # ZeroDisplay,
      cpf |-> m.cpf, shift_swap |-> m.shift_swap,
      complex_jump |-> m.complex_jump ]

\* hist after one more reset of machine m: resets in a row are kept together
RememberReset(m) ==
    LET e == [op |-> "reset", inst |-> 0, m |-> Digest(m)]
    IN IF hist # <<>> /\ hist[1].op = "reset" THEN <<e, hist[1]>> ELSE <<e>>

\* the instruction at pc, or -1 when the fetch is out of range
Fetched(m) == IF m.pc + 1 < MEM_SIZE THEN curr_inst(m) ELSE -1

\* the bytes rand::random may return to this cycle: only Cxnn draws one
RngDraws(m) ==
    IF Fetched(m) >= 0 /\ family(Fetched(m)) = 12 THEN RngBytes ELSE {0}

\* whether the build checks integer overflow: only Fx1E can overflow
BuildChoices(m) ==
    IF Fetched(m) >= 0 /\ family(Fetched(m)) = 15 /\ field_nn(Fetched(m)) = 30
    THEN BOOLEAN ELSE {FALSE}

\* the caller is between two calls on the emulator
Idle == ~in_step /\ ~panicked

Init ==
    /\ cpf = new.cpf
    /\ shift_swap = new.shift_swap
    /\ complex_jump = new.complex_jump
    /\ state = new.state
    /\ frame_count = new.frame_count
    /\ mem = new.mem
    /\ regs = new.regs
    /\ display = new.display
    /\ pc = new.pc
    /\ reg_i = new.reg_i
    /\ stack = new.stack
    /\ delay_timer = new.delay_timer
    /\ sound_timer = new.sound_timer
    /\ key = new.key
    /\ panicked = new.panicked
    /\ in_step = FALSE
    /\ n = 0
    /\ at_call = [delay_timer |-> 0, sound_timer |-> 0]
    /\ hist = <<>>

Reset ==
    /\ Idle
    /\ Install(reset(Self))
    /\ hist' = RememberReset(Self)
    /\ UNCHANGED <<in_step, n, at_call>>

Pause ==
    /\ Idle
    /\ Install(pause(Self))
    /\ hist' = <<>>
    /\ UNCHANGED <<in_step, n, at_call>>

Resume ==
    /\ Idle
    /\ Install(resume(Self))
    /\ hist' = <<>>
    /\ UNCHANGED <<in_step, n, at_call>>

\* a ROM is loaded into a machine that holds none, or one of Reloads over
\* the previous ROM once step() has returned from the last frame
LoadRom ==
    /\ Idle
    /\ \E rom \in Roms :
          /\ \/ state = "NoROM"
             \/ /\ frame_count = MaxFrames
                /\ hist # <<>>
                /\ hist[1].op = "cycle"
                /\ rom \in Reloads
          /\ Install(load_rom(Self, rom))
          /\ hist' = RememberLoad(Self, rom)
    /\ UNCHANGED <<in_step, n, at_call>>

LoadFont ==
    /\ Idle
    /\ state = "NoROM"
    /\ Install(load_font(Self))
    /\ hist' = <<>>
    /\ UNCHANGED <<in_step, n, at_call>>

\* the options are set before the first frame
Configure ==
    /\ Idle
    /\ frame_count = 0
    /\ \E c \in Configs :
          Install([Self EXCEPT !.cpf = c.cpf, !.shift_swap = c.shift_swap,
                               !.complex_jump = c.complex_jump])
    /\ hist' = <<>>
    /\ UNCHANGED <<in_step, n, at_call>>

KeyboardInput ==
    /\ Idle
    /\ \E ev \in KeyEvents :
          /\ Install(keyboard_input(Self, ev[1], ev[2]))
          /\ hist' = RememberKey(key, ev[1], ev[2])
    /\ UNCHANGED <<in_step, n, at_call>>

\* step() is called: the timers count down and the loop starts at n = 0
StepBegin ==
    /\ Idle
    /\ frame_count < MaxFrames
    /\ Install(step_timers(Self))
    /\ in_step' = TRUE
    /\ n' = 0
    /\ at_call' = [delay_timer |-> delay_timer, sound_timer |-> sound_timer]
    /\ UNCHANGED hist

\* one iteration of the loop of step()
Cycle ==
    /\ in_step
    /\ ~panicked
    /\ step_continues(Self, n)
    /\ \E rng \in RngDraws(Self), overflow_checks \in BuildChoices(Self) :
          Install(internal_step(Self, rng, overflow_checks))
    /\ n' = n + 1
    /\ hist' = Remember(Fetched(Self), Self)
    /\ UNCHANGED <<in_step, at_call>>

\* the loop of step() is over: frame_count is bumped and step() returns
StepReturn ==
    /\ in_step
    /\ ~panicked
    /\ ~step_continues(Self, n)
    /\ Install(step_finish(Self))
    /\ in_step' = FALSE
    /\ UNCHANGED <<n, at_call, hist>>

\* a redraw that steps the machine whatever its run state
RedrawAnyState == StepBegin

\* the redraw event: step() is called if the machine is Running, and the
\* event does nothing to the machine otherwise
Redraw ==
    /\ state = "Running"
    /\ StepBegin

\* the Step button, which is disabled unless the machine is Paused
StepButton ==
    /\ state = "Paused"
    /\ StepBegin

Next ==
    \/ Reset
    \/ Pause
    \/ Resume
    \/ LoadRom
    \/ LoadFont
    \/ Configure
    \/ KeyboardInput
    \/ Redraw
    \/ StepButton
    \/ Cycle
    \/ StepReturn

Spec == Init /\ [][Next]_vars

-----------------------------------------------------------------------------
(* Properties.  After a cycle, hist[1] holds the word the cycle fetched   *)
(* and the machine as it was before the cycle.                            *)

\* the last thing that happened is a cycle of the running step()
JustRan == in_step /\ n >= 1 /\ Len(hist) >= 1 /\ hist[1].op = "cycle"

\* the last thing that happened is a cycle that fetched a word and did not panic
Executed == JustRan /\ hist[1].inst >= 0 /\ ~panicked

\* the last cycle executed 8xyN with this low nibble
Executed8(nib) ==
    Executed /\ family(hist[1].inst) = 8 /\ field_n(hist[1].inst) = nib

\* the operands of the last cycle: the selectors and the register values
\* before the cycle
OpX == field_x(hist[1].inst)
OpY == field_y(hist[1].inst)
OpA == hist[1].m.regs[OpX]
OpB == hist[1].m.regs[OpY]

\* C1 as stated: after 8xy4 with Vx = a and Vy = b, Vx = (a + b) mod 256 and
\* VF = 1 iff a + b >= 256, for every x and y.
C1_AddAllRegisters ==
    Executed8(4) =>
        /\ regs[OpX] = (OpA + OpB) % 256
        /\ regs[15] = (IF OpA + OpB >= 256 THEN 1 ELSE 0)

\* C1 amended: after 8xy4 with Vx = a and Vy = b, VF = 1 if a + b >= 256 and
\* 0 otherwise, for every x and y; Vx = (a + b) mod 256 for every x other
\* than 15 (for x = 15 the flag is written over the sum).
C1_Add ==
    Executed8(4) =>
        /\ regs[15] = (IF OpA + OpB >= 256 THEN 1 ELSE 0)
        /\ OpX # 15 => regs[OpX] = (OpA + OpB) % 256

\* an 8xy4 whose sum overflowed, x not 15
C1_Witness == Executed8(4) /\ OpX # 15 /\ OpA + OpB >= 256 /\ regs[OpX] > 0

\* C2 as stated: after 8xy5 with Vx = a and Vy = b, Vx = (a - b) mod 256 and
\* VF = 0 iff a < b, for every x and y.
C2_SubAllRegisters ==
    Executed8(5) =>
        /\ regs[OpX] = (OpA - OpB + 256) % 256
        /\ regs[15] = (IF OpA < OpB THEN 0 ELSE 1)

\* C2 amended: after 8xy5 with Vx = a and Vy = b, VF = 0 if a < b and 1
\* otherwise, for every x and y; Vx = (a - b) mod 256 for every x other
\* than 15 (for x = 15 the flag is written over the difference).
C2_Sub ==
    Executed8(5) =>
        /\ regs[15] = (IF OpA < OpB THEN 0 ELSE 1)
        /\ OpX # 15 => regs[OpX] = (OpA - OpB + 256) % 256

\* an 8xy5 that underflowed, x not 15
C2_Witness == Executed8(5) /\ OpX # 15 /\ OpA < OpB

\* the last cycle executed Dxyn
ExecutedDraw == Executed /\ family(hist[1].inst) = 13

\* the start position and the height of the last draw
DrawPx == OpA % DISPLAY_W
DrawPy == OpB % DISPLAY_H
DrawN == field_n(hist[1].inst)

\* pixel (cx, cy) is inside the clip region of the last draw
InClip(cx, cy) ==
    /\ cx >= DrawPx
    /\ cx < (IF DrawPx + 8 < DISPLAY_W THEN DrawPx + 8 ELSE DISPLAY_W)
    /\ cy >= DrawPy
    /\ cy < (IF DrawPy + DrawN < DISPLAY_H THEN DrawPy + DrawN ELSE DISPLAY_H)

\* bit c (0 is the most significant) of sprite row r of the last draw
SpriteBit(r, c) == (hist[1].m.mem[hist[1].m.reg_i + r] \div (2 ^ (7 - c))) % 2

\* the pixels that differ between two framebuffers
Changed(d1, d2) ==
    { p \in (0..(DISPLAY_W - 1)) \X (0..(DISPLAY_H - 1)) :
        d1[p[1]][p[2]] # d2[p[1]][p[2]] }

\* the last two cycles executed the same Dxyn with the same index register
\* and the same memory
DrewTwice ==
    /\ ExecutedDraw
    /\ Len(hist) >= 2
    /\ hist[2].op = "cycle"
    /\ hist[2].inst = hist[1].inst
    /\ hist[2].m.reg_i = hist[1].m.reg_i
    /\ hist[2].m.mem = hist[1].m.mem

\* VF tells whether the last draw turned a lit pixel off
FlagIsCollision ==
    regs[15] = (IF \E p \in Changed(hist[1].m.display, display) :
                      hist[1].m.display[p[1]][p[2]] = 1
                THEN 1 ELSE 0)

\* C3 as stated: the same Dxyn twice in a row restores the framebuffer, for
\* every x and y, and VF then tells whether the second draw turned a lit
\* pixel off.
C3_DrawTwiceAllRegisters ==
    DrewTwice => display = hist[2].m.display /\ FlagIsCollision

\* C3 amended: the same Dxyn twice in a row restores the framebuffer whenever
\* both draws start at the same position (always so when neither x nor y is
\* 15; the first draw writes VF, so with x = 15 or y = 15 the second draw may
\* start elsewhere); for every x and y, VF after the second draw tells
\* whether it turned a lit pixel off.
C3_DrawTwice ==
    DrewTwice =>
        /\ FlagIsCollision
        /\ ( /\ hist[2].m.regs[OpX] % DISPLAY_W = DrawPx
             /\ hist[2].m.regs[OpY] % DISPLAY_H = DrawPy )
           => display = hist[2].m.display

\* the second of two equal draws, x and y not 15, over a lit background: the
\* first draw changed the framebuffer and the second one collided
C3_Witness ==
    /\ DrewTwice
    /\ OpX # 15
    /\ OpY # 15
    /\ hist[2].m.display # ZeroDisplay
    /\ hist[1].m.display # hist[2].m.display
    /\ display = hist[2].m.display
    /\ regs[15] = 1

\* C4: a draw changes exactly the pixels of the clip region that lie under a
\* set sprite bit, counted from the start position (Vx mod 64, Vy mod 32);
\* nothing outside columns [px, min(px+8, 64)) and rows [py, min(py+n, 32))
\* changes, so nothing wraps to column 0 or row 0.
C4_Clip ==
    ExecutedDraw =>
        \A cx \in 0..(DISPLAY_W - 1), cy \in 0..(DISPLAY_H - 1) :
            display[cx][cy] =
                IF InClip(cx, cy) /\ SpriteBit(cy - DrawPy, cx - DrawPx) = 1
                THEN 1 - hist[1].m.display[cx][cy]
                ELSE hist[1].m.display[cx][cy]

\* a draw that changed pixels and had set sprite bits past the right edge
\* and sprite rows past the bottom edge
C4_Witness ==
    /\ ExecutedDraw
    /\ display # hist[1].m.display
    /\ DrawPx + 8 > DISPLAY_W
    /\ DrawPy + DrawN > DISPLAY_H
    /\ \E c \in 0..7 : DrawPx + c >= DISPLAY_W /\ SpriteBit(0, c) = 1
    /\ \E r \in 0..(DrawN - 1) :
          DrawPy + r >= DISPLAY_H /\ hist[1].m.mem[hist[1].m.reg_i + r] # 0

\* C5: after 00E0 every one of the 64 x 32 pixels reads 0.
C5_Clear ==
    (Executed /\ hist[1].inst = 224) =>
        \A cx \in 0..(DISPLAY_W - 1), cy \in 0..(DISPLAY_H - 1) :
            display[cx][cy] = 0

\* a 00E0 executed on a framebuffer with lit pixels in the last row
C5_Witness ==
    /\ Executed
    /\ hist[1].inst = 224
    /\ \E cx \in 0..(DISPLAY_W - 1) : hist[1].m.display[cx][DISPLAY_H - 1] = 1

\* the last three cycles started from pc = 0x200 with all registers 0 and
\* the scenario bytes at 0x200
ScenarioRan ==
    /\ Len(hist) >= 3
    /\ \A i \in 1..3 : hist[i].op = "cycle"
    /\ JustRan
    /\ hist[3].m.pc = MEM_OFFSET
    /\ hist[3].m.regs = ZeroRegs
    /\ \A i \in 1..Len(RomScenario) :
          hist[3].m.mem[MEM_OFFSET + i - 1] = RomScenario[i]

\* C6: from pc = 0x200 and all registers 0, with 60 05 61 03 80 14 at 0x200,
\* three cycles fetch 0x6005, 0x6103, 0x8014 in this order and end with
\* V0 = 8, V1 = 3, VF = 0 and pc = 0x206.
C6_Scenario ==
    ScenarioRan =>
        /\ hist[3].inst = 24581
        /\ hist[2].inst = 24835
        /\ hist[1].inst = 32788
        /\ hist[2].m.pc = MEM_OFFSET + 2
        /\ hist[1].m.pc = MEM_OFFSET + 4
        /\ regs[0] = 8
        /\ regs[1] = 3
        /\ regs[15] = 0
        /\ pc = MEM_OFFSET + 6
        /\ ~panicked

\* the scenario has run its three cycles
C6_Witness == ScenarioRan /\ regs[0] = 8 /\ pc = MEM_OFFSET + 6

\* the last cycle fetched 00EE with an empty call stack
ReturnedFromNothing ==
    /\ JustRan
    /\ hist[1].inst = 238
    /\ hist[1].m.stack = <<>>

\* C7 as stated: 00EE on an empty call stack is an error the caller gets to
\* see: step() comes back to its caller and the machine is left Paused.
C7_UnderflowSurfaced ==
    ReturnedFromNothing => ~panicked /\ state = "Paused"

\* the last cycle fetched Fx0A
FetchedGetKey ==
    /\ JustRan
    /\ hist[1].inst >= 0
    /\ family(hist[1].inst) = 15
    /\ field_nn(hist[1].inst) = 10

\* C8: Fx0A with no key held leaves pc, the registers and the timers as
\* they were before the cycle, so the same instruction is fetched by the
\* next cycle; with key k held it sets Vx = k and leaves pc advanced by 2.
C8_GetKey ==
    /\ FetchedGetKey =>
          IF hist[1].m.key = <<>>
          THEN /\ pc = hist[1].m.pc
               /\ regs = hist[1].m.regs
               /\ delay_timer = hist[1].m.delay_timer
               /\ sound_timer = hist[1].m.sound_timer
               /\ mem = hist[1].m.mem
               /\ Fetched(Self) = hist[1].inst
               /\ ~panicked
          ELSE /\ regs = [hist[1].m.regs EXCEPT ![OpX] = hist[1].m.key[1]]
               /\ pc = hist[1].m.pc + 2
               /\ ~panicked
    /\ ( /\ JustRan
         /\ Len(hist) >= 2
         /\ hist[2].op = "cycle"
         /\ hist[2].inst >= 0
         /\ family(hist[2].inst) = 15
         /\ field_nn(hist[2].inst) = 10
         /\ hist[2].m.key = <<>> )
       => hist[1].inst = hist[2].inst /\ hist[1].m.pc = hist[2].m.pc

\* Fx0A waited twice in a row, in two frames, while the delay timer was
\* counting down
C8_Witness ==
    /\ FetchedGetKey
    /\ key = <<>>
    /\ Len(hist) >= 2
    /\ hist[2].inst = hist[1].inst
    /\ hist[2].m.key = <<>>
    /\ hist[2].m.delay_timer > delay_timer
    /\ delay_timer > 0

\* the last operation was reset()
AfterReset == Len(hist) >= 1 /\ hist[1].op = "reset"

\* C9: after reset() the run state is NoROM and memory, registers, index
\* register, pc, call stack, timers, framebuffer and key latch have their
\* initial values; the configuration is kept, so the state after reset()
\* is the same whatever it was before, in particular after a reset().
C9_Reset ==
    AfterReset =>
        /\ state = "NoROM"
        /\ \A a \in 0..(MEM_SIZE - 1) : mem[a] = 0
        /\ \A r \in 0..15 : regs[r] = 0
        /\ reg_i = 0
        /\ pc = 512
        /\ stack = <<>>
        /\ delay_timer = 0
        /\ sound_timer = 0
        /\ display = ZeroDisplay
        /\ key = <<>>
        /\ Self = [new EXCEPT !.cpf = hist[1].m.cpf,
                              !.shift_swap = hist[1].m.shift_swap,
                              !.complex_jump = hist[1].m.complex_jump]

\* reset() twice in a row, the first one on a machine that had run frames,
\* had a key held and had lit pixels
C9_Witness ==
    /\ Len(hist) = 2
    /\ hist[1].op = "reset"
    /\ hist[2].op = "reset"
    /\ hist[2].m.ran
    /\ hist[2].m.held
    /\ hist[2].m.lit
    /\ ~hist[1].m.ran

\* a timer after the countdown at the head of step()
CountedDown(t) == IF t > 0 THEN t - 1 ELSE 0

\* the last cycle wrote register Vx to a timer with Fx15 (nn = 21) or
\* Fx18 (nn = 24)
WroteTimer(nn) ==
    /\ hist[1].inst >= 0
    /\ family(hist[1].inst) = 15
    /\ field_nn(hist[1].inst) = nn

\* C10 as stated: step() counts each timer down by one, floored at 0, before
\* the first cycle; every one of its cpf cycles then runs and step()
\* returns; a cycle changes a timer only by Fx15 or Fx18.
C10_ExactFrame ==
    /\ (in_step /\ n = 0) =>
          /\ delay_timer = CountedDown(at_call.delay_timer)
          /\ sound_timer = CountedDown(at_call.sound_timer)
    /\ JustRan =>
          /\ delay_timer # hist[1].m.delay_timer => WroteTimer(21)
          /\ sound_timer # hist[1].m.sound_timer => WroteTimer(24)
    /\ in_step => n <= cpf /\ ~panicked
    /\ (~in_step /\ frame_count > 0) => n = cpf

\* this step is a load_rom
LoadStep == hist' # <<>> /\ hist'[1].op = "load" /\ hist'[1].m.pre = Self

\* C11 as stated: the machine starts in NoROM, and it becomes Running only
\* by a load or by resume() on a Paused machine; nothing else, and in
\* particular no resume() on a machine in NoROM, makes it Running.
C11_RunningOnlyByLoad ==
    /\ state = "NoROM"
    /\ [][ (state # "Running" /\ state' = "Running") =>
              (LoadStep \/ state = "Paused") ]_vars

\* the word matches no pattern of the opcode table
Undefined(inst) ==
    CASE family(inst) = 0 -> inst \notin {224, 238}
      [] family(inst) \in {5, 9} -> field_n(inst) # 0
      [] family(inst) = 8 -> field_n(inst) \in (8..13) \cup {15}
      [] family(inst) = 14 -> field_nn(inst) \notin {158, 161}
      [] family(inst) = 15 ->
            field_nn(inst) \notin {7, 10, 21, 24, 30, 41, 51, 85, 101}
      [] OTHER -> FALSE

\* C12 as stated: a word outside the opcode table is a no-op: the cycle
\* changes nothing but pc, which advances by 2, and the word is not executed
\* as another opcode.
C12_UndefinedIsNoOp ==
    (JustRan /\ hist[1].inst >= 0 /\ Undefined(hist[1].inst)) =>
        Self = [hist[1].m EXCEPT !.pc = hist[1].m.pc + 2]

\* the last cycle fetched Fxnn with this low byte
FetchedF(nn) ==
    /\ JustRan
    /\ hist[1].inst >= 0
    /\ family(hist[1].inst) = 15
    /\ field_nn(hist[1].inst) = nn

\* the last cycle computed an address outside memory: for its fetch, for a
\* sprite row, or for a byte of Fx33, Fx55 or Fx65
OutOfRange ==
    /\ JustRan
    /\ \/ hist[1].inst = -1
       \/ /\ hist[1].inst >= 0
          /\ family(hist[1].inst) = 13
          /\ \E r \in 0..(DrawN - 1) :
                DrawPy + r < DISPLAY_H /\ hist[1].m.reg_i + r >= MEM_SIZE
       \/ FetchedF(51) /\ hist[1].m.reg_i + 2 >= MEM_SIZE
       \/ (FetchedF(85) \/ FetchedF(101)) /\ hist[1].m.reg_i + OpX >= MEM_SIZE

\* C13 as stated: an access outside [0, 4096) is a checked, fatal error that
\* the caller gets to see: step() comes back with the machine Paused, and
\* the instruction has modified neither memory nor the registers.
C13_AccessChecked ==
    OutOfRange =>
        /\ ~panicked
        /\ state = "Paused"
        /\ mem = hist[1].m.mem
        /\ regs = hist[1].m.regs

\* the last operation was load_rom: hist[1].m.rom is the file and
\* hist[1].m.pre the machine before the load
AfterLoad == ~in_step /\ Len(hist) >= 1 /\ hist[1].op = "load"

\* C14 as stated: a file longer than the 3584 bytes of the program region
\* is refused: the load is an error, memory is not written and the machine
\* does not become Running.
C14_TooLargeRefused ==
    (AfterLoad /\ Len(hist[1].m.rom) > MEM_SIZE - MEM_OFFSET) =>
        /\ state # "Running"
        /\ mem = hist[1].m.pre.mem

\* the last operation was a keyboard event: hist[1].m holds the event and
\* the latch before it
AfterKey == ~in_step /\ Len(hist) >= 1 /\ hist[1].op = "key"

\* C15: the latch is none or one key in 0..15; a release of any key empties
\* it; a press of a mapped key puts that key in it, whatever it held; a
\* press of a key that is not mapped leaves it as it was.
C15_KeyLatch ==
    /\ key = <<>> \/ (Len(key) = 1 /\ key[1] \in 0..15)
    /\ AfterKey =>
          IF hist[1].m.released THEN key = <<>>
          ELSE IF map_key(hist[1].m.scancode) # <<>>
               THEN key = map_key(hist[1].m.scancode)
               ELSE key = hist[1].m.key

\* the release of a key other than the one the latch held: the latch is
\* empty
C15_Witness ==
    /\ AfterKey
    /\ hist[1].m.released
    /\ hist[1].m.key # <<>>
    /\ hist[1].m.key # map_key(hist[1].m.scancode)
    /\ key = <<>>

\* C16: load_rom puts byte k of the file at 0x200 + k (as far as the file
\* fits), makes the machine Running and leaves everything else as it was:
\* the rest of memory, the registers, the index register, pc, the call
\* stack, the timers, the framebuffer and the key latch.
C16_LoadRom ==
    AfterLoad =>
        /\ \A a \in 0..(MEM_SIZE - 1) :
              mem[a] = IF a >= MEM_OFFSET /\ a - MEM_OFFSET < Len(hist[1].m.rom)
                       THEN hist[1].m.rom[a - MEM_OFFSET + 1]
                       ELSE hist[1].m.pre.mem[a]
        /\ state = "Running"
        /\ Self = [hist[1].m.pre EXCEPT !.state = "Running", !.mem = mem]

\* a load over a Paused machine that had run a ROM: registers, index
\* register, pc, framebuffer, key latch and glyph table were set and the
\* old ROM was longer than the new one
C16_Witness ==
    /\ AfterLoad
    /\ hist[1].m.pre.state = "Paused"
    /\ hist[1].m.pre.regs # ZeroRegs
    /\ hist[1].m.pre.reg_i # 0
    /\ hist[1].m.pre.pc # MEM_OFFSET
    /\ hist[1].m.pre.display # ZeroDisplay
    /\ hist[1].m.pre.key # <<>>
    /\ hist[1].m.pre.mem[FONT_BASE] # 0
    /\ hist[1].m.pre.mem[MEM_OFFSET + Len(hist[1].m.rom)] # 0
    /\ mem[MEM_OFFSET] # hist[1].m.pre.mem[MEM_OFFSET]

\* the glyph table is where load_font puts it
FontLoaded(m) == \A k \in 1..Len(FONTSET) : m.mem[FONT_BASE + k - 1] = FONTSET[k]

\* C17 as stated: Fx29 sets the index register to 0x050 + (Vx & 0xF) * 5, so
\* that with the glyph table loaded the five bytes at the index register are
\* the glyph of digit Vx & 0xF.
C17_FontChar ==
    FetchedF(41) =>
        /\ reg_i = FONT_BASE + BitAnd(OpA, 15) * 5
        /\ FontLoaded(hist[1].m) =>
              \A k \in 0..4 : mem[reg_i + k] = FONTSET[BitAnd(OpA, 15) * 5 + k + 1]

\* the last cycle fetched Exnn with this low byte
FetchedE(nn) ==
    /\ JustRan
    /\ hist[1].inst >= 0
    /\ family(hist[1].inst) = 14
    /\ field_nn(hist[1].inst) = nn

\* C18 as stated: ExA1 leaves pc at old pc + 2 when a key is held and equals
\* Vx, and at old pc + 4 otherwise, that is with another key held or with no
\* key held.
C18_SkipIfNotKey ==
    FetchedE(161) =>
        pc = hist[1].m.pc
             + (IF hist[1].m.key # <<>> /\ hist[1].m.key[1] = OpA THEN 2 ELSE 4)

\* the last draw had a set sprite bit on pixel (cx, cy) of its clip region
\* and the pixel was lit before the draw
Collided(cx, cy) ==
    /\ InClip(cx, cy)
    /\ SpriteBit(cy - DrawPy, cx - DrawPx) = 1
    /\ hist[1].m.display[cx][cy] = 1

\* the last draw had a set sprite bit on pixel (cx, cy) of its clip region
\* and the pixel was off before the draw
TurnedOn(cx, cy) ==
    /\ InClip(cx, cy)
    /\ SpriteBit(cy - DrawPy, cx - DrawPx) = 1
    /\ hist[1].m.display[cx][cy] = 0

\* C19: after Dxyn, VF = 1 if some set sprite bit inside the clip region
\* landed on a pixel that was lit, and VF = 0 otherwise, also when n = 0;
\* every other register is as before the draw.
C19_DrawFlag ==
    ExecutedDraw =>
        /\ regs[15] = (IF \E cx \in 0..(DISPLAY_W - 1), cy \in 0..(DISPLAY_H - 1) :
                             Collided(cx, cy)
                       THEN 1 ELSE 0)
        /\ \A r \in 0..14 : regs[r] = hist[1].m.regs[r]
        /\ DrawN = 0 => regs[15] = 0 /\ display = hist[1].m.display

\* a draw that started with VF = 1, collided on one pixel and, later in the
\* same row or in a later row, turned on a pixel that was off
C19_Witness ==
    /\ ExecutedDraw
    /\ regs[15] = 1
    /\ hist[1].m.regs[15] = 1
    /\ \E cx \in 0..(DISPLAY_W - 1), cy \in 0..(DISPLAY_H - 1) :
          /\ Collided(cx, cy)
          /\ \E dx \in 0..(DISPLAY_W - 1), dy \in 0..(DISPLAY_H - 1) :
                /\ TurnedOn(dx, dy)
                /\ dy > cy \/ (dy = cy /\ dx > cx)

\* C20 as stated: after 8xy7 with Vx = a and Vy = b: if a > b, VF = 1 and
\* Vx is unchanged; otherwise VF = 0 and Vx = b - a; for every x and y.
C20_RsubAllRegisters ==
    Executed8(7) =>
        IF OpA > OpB
        THEN regs[15] = 1 /\ regs[OpX] = OpA
        ELSE regs[15] = 0 /\ regs[OpX] = OpB - OpA

\* C20 amended: after 8xy7 with Vx = a and Vy = b, VF = 1 if a > b and 0
\* otherwise, for every x and y; for every x other than 15, Vx is unchanged
\* if a > b and b - a otherwise (for x = 15 the register holds the flag);
\* no other register changes.
C20_Rsub ==
    Executed8(7) =>
        /\ regs[15] = (IF OpA > OpB THEN 1 ELSE 0)
        /\ OpX # 15 => regs[OpX] = (IF OpA > OpB THEN OpA ELSE OpB - OpA)
        /\ \A r \in 0..14 : r # OpX => regs[r] = hist[1].m.regs[r]

\* an 8xy7 that computed a nonzero difference, x not 15, with VF = 1 before
C20_Witness ==
    /\ Executed8(7)
    /\ OpX # 15
    /\ OpA < OpB
    /\ hist[1].m.regs[15] = 1
    /\ regs[OpX] = OpB - OpA
    /\ regs[15] = 0

\* the value the last 8xy6 or 8xyE shifted: Vy with shift_swap, else Vx
ShiftIn == IF hist[1].m.shift_swap THEN OpB ELSE OpA

\* C21 as stated: 8xy6 leaves VF = low bit of the value shifted and
\* Vx = that value >> 1; 8xyE leaves VF = its high bit and
\* Vx = (that value << 1) mod 256; the value shifted is Vy with shift_swap
\* and Vx without; for every x and y.
C21_ShiftAllRegisters ==
    /\ Executed8(6) =>
          regs[15] = ShiftIn % 2 /\ regs[OpX] = ShiftIn \div 2
    /\ Executed8(14) =>
          regs[15] = ShiftIn \div 128 /\ regs[OpX] = (ShiftIn * 2) % 256

\* C21 amended: for every x other than 15, 8xy6 leaves VF = low bit of the
\* value shifted and Vx = that value >> 1, and 8xyE leaves VF = its high bit
\* and Vx = (that value << 1) mod 256; for x = 15 the shift is applied to
\* the flag just written, so VF ends as 0 after 8Fy6 and as twice the high
\* bit after 8FyE; the value shifted is Vy with shift_swap and Vx without;
\* no other register changes.
C21_Shift ==
    /\ Executed8(6) =>
          IF OpX # 15
          THEN regs[15] = ShiftIn % 2 /\ regs[OpX] = ShiftIn \div 2
          ELSE regs[15] = 0
    /\ Executed8(14) =>
          IF OpX # 15
          THEN regs[15] = ShiftIn \div 128 /\ regs[OpX] = (ShiftIn * 2) % 256
          ELSE regs[15] = (ShiftIn \div 128) * 2
    /\ (Executed8(6) \/ Executed8(14)) =>
          \A r \in 0..14 : r # OpX => regs[r] = hist[1].m.regs[r]

\* an 8xy6 with shift_swap that shifted an odd Vy different from Vx, x not 15
C21_Witness ==
    /\ Executed8(6)
    /\ hist[1].m.shift_swap
    /\ OpX # 15
    /\ OpA # OpB
    /\ OpB \div 2 # OpA \div 2
    /\ regs[OpX] = OpB \div 2

\* C22: Fx1E leaves the index register at its old value plus Vx, not cut
\* to 12 bits; VF is 1 if the new value is above 0x1000 and keeps its old
\* value otherwise; no other register changes.
C22_AddIndex ==
    (FetchedF(30) /\ ~panicked /\ hist[1].m.reg_i + OpA <= 65535) =>
        /\ reg_i = hist[1].m.reg_i + OpA
        /\ regs = IF reg_i > 4096 THEN [hist[1].m.regs EXCEPT ![15] = 1]
                  ELSE hist[1].m.regs

\* an Fx1E that brought the index register to exactly 0x1000 with VF = 7
C22_Witness ==
    /\ FetchedF(30)
    /\ ~panicked
    /\ reg_i = 4096
    /\ OpA > 0
    /\ regs[15] = 7

\* C25: Fx55 puts Vk at memory[index + k] for k in 0..x and changes no
\* other memory cell, no register and not the index register; Fx65 puts
\* memory[index + k] in Vk for k in 0..x and changes no other register, no
\* memory and not the index register; so an Fx65 right after an Fx55 with
\* the same x and index register leaves every register as it was before
\* the Fx55.
C25_StoreLoad ==
    /\ (FetchedF(85) /\ ~panicked) =>
          /\ \A a \in 0..(MEM_SIZE - 1) :
                mem[a] = IF a >= reg_i /\ a <= reg_i + OpX
                         THEN hist[1].m.regs[a - reg_i]
                         ELSE hist[1].m.mem[a]
          /\ regs = hist[1].m.regs
          /\ reg_i = hist[1].m.reg_i
    /\ (FetchedF(101) /\ ~panicked) =>
          /\ \A r \in 0..15 :
                regs[r] = IF r <= OpX THEN hist[1].m.mem[reg_i + r]
                          ELSE hist[1].m.regs[r]
          /\ mem = hist[1].m.mem
          /\ reg_i = hist[1].m.reg_i
    /\ ( /\ FetchedF(101)
         /\ ~panicked
         /\ Len(hist) >= 2
         /\ hist[2].op = "cycle"
         /\ hist[2].inst >= 0
         /\ family(hist[2].inst) = 15
         /\ field_nn(hist[2].inst) = 85
         /\ field_x(hist[2].inst) = OpX
         /\ hist[2].m.reg_i = hist[1].m.reg_i )
       => regs = hist[2].m.regs

\* an Fx65 right after the Fx55 that had written V0 and V1, both nonzero,
\* over other bytes
C25_Witness ==
    /\ FetchedF(101)
    /\ ~panicked
    /\ Len(hist) >= 2
    /\ hist[2].op = "cycle"
    /\ hist[2].inst = hist[1].inst - 16
    /\ OpX = 1
    /\ hist[2].m.mem[reg_i] # regs[0]
    /\ hist[2].m.mem[reg_i + 1] # regs[1]
    /\ regs[0] # 0
    /\ regs[1] # 0
    /\ regs = hist[2].m.regs

\* C23: 2nnn fetched at address a pushes a + 2 and sets pc to nnn; 00EE on
\* a stack that is not empty takes the address pushed last off the stack
\* and puts it in pc; no other instruction changes the stack, so its depth
\* is the number of calls minus the number of returns executed.
C23_CallReturn ==
    (JustRan /\ hist[1].inst >= 0 /\ ~panicked) =>
        CASE family(hist[1].inst) = 2 ->
                /\ stack = Append(hist[1].m.stack, hist[1].m.pc + 2)
                /\ pc = field_nnn(hist[1].inst)
          [] hist[1].inst = 238 ->
                /\ hist[1].m.stack # <<>>
                /\ Len(stack) = Len(hist[1].m.stack) - 1
                /\ \A k \in 1..Len(stack) : stack[k] = hist[1].m.stack[k]
                /\ pc = hist[1].m.stack[Len(hist[1].m.stack)]
          [] OTHER -> stack = hist[1].m.stack

\* the inner return of two nested calls: it resumes right after the inner
\* call, executed one cycle before, and leaves the outer return address
C23_Witness ==
    /\ JustRan
    /\ ~panicked
    /\ hist[1].inst = 238
    /\ Len(hist[1].m.stack) = 2
    /\ Len(hist) >= 2
    /\ hist[2].op = "cycle"
    /\ family(hist[2].inst) = 2
    /\ pc = hist[2].m.pc + 2
    /\ stack = <<hist[1].m.stack[1]>>
    /\ hist[1].m.stack[1] # hist[1].m.stack[2]

\* this step is a cycle that fetched 00E0 or Dxyn
DrawingStep ==
    /\ hist' # <<>>
    /\ hist'[1].op = "cycle"
    /\ hist'[1].m = Self
    /\ hist'[1].inst >= 0
    /\ hist'[1].inst = 224 \/ family(hist'[1].inst) = 13

\* this step is a reset()
ResetStep == hist' # <<>> /\ hist'[1].op = "reset" /\ state' = "NoROM"

\* C24: a step of the machine changes a pixel only if it is a cycle that
\* fetched 00E0 or Dxyn, or a reset(); every other instruction, the timer
\* countdown of step(), pause, resume, load and keyboard events leave the
\* framebuffer as it is.
C24_DisplayWriters ==
    [][ display' # display => (DrawingStep \/ ResetStep) ]_vars

\* an instruction other than 00E0 and Dxyn has just run on a framebuffer
\* with lit pixels, and the pixels are as they were
C24_Witness ==
    /\ Executed
    /\ hist[1].inst # 224
    /\ family(hist[1].inst) # 13
    /\ hist[1].m.display # ZeroDisplay
    /\ display = hist[1].m.display

\* this step is a load_font
FontStep == mem' = load_font(Self).mem /\ hist' = <<>>

C27_StepKeepsStateKeyConfig ==
    [][ (in_step \/ in_step') =>
           /\ state' = state
           /\ key' = key
           /\ cpf' = cpf
           /\ shift_swap' = shift_swap
           /\ complex_jump' = complex_jump ]_vars

\* an Fx0A has just read a held key into Vx of a Running machine and the
\* key is still in the latch
C27_Witness ==
    /\ FetchedGetKey
    /\ ~panicked
    /\ hist[1].m.key # <<>>
    /\ key = hist[1].m.key
    /\ regs[OpX] = key[1]
    /\ hist[1].m.regs[OpX] # key[1]
    /\ state = "Running"
    /\ hist[1].m.state = "Running"

====
